---- MODULE Spec2Model ----
(***************************************************************************)
(* Task tracker and HTTP surface of the research-crew API service.         *)
(* Two application modules exist: src/api/api.py (tasks kept in JSON files)*)
(* and src/api/api_supabase.py (hosted backend first, JSON files as the    *)
(* fallback).  The variable app tells which of the two the process serves. *)
(*                                                                         *)
(* Every operation (a request handler with its response, a step of a       *)
(* background job) is one atomic action.  It leaves in the variable event  *)
(* what it was and what it answered; the step Settle clears event before   *)
(* the next operation begins, so a state with an event is the state right  *)
(* after that operation.                                                   *)
(***************************************************************************)
EXTENDS Naturals, Integers, Sequences, FiniteSets, TLC

(* ------------------------------ bounds -------------------------------- *)
\* number of task ids uuid4 hands out in one process
MaxTasks == 1
\* number of POST requests accepted side by side in ConcSpec
MaxJobs == 2
\* the wall clock, in days; files written by this process carry it as mtime
Now == 2
\* largest value of the days parameter of GET /cleanup-tasks
MaxDays == 1

(* ------------------------------ values -------------------------------- *)
\* Python's None
None == "None"

\* task ids uuid4 generates in this process
NewIds == {<<"uuid", i>> : i \in 1..MaxTasks}
\* the ids uuid4 can hand out at all: NewIds, and those only ConcSpec draws
PoolIds == NewIds \cup {<<"uuid", i>> : i \in 1..MaxJobs}
\* a task id outside the deny-list
OldId == <<"old", 1>>
\* the one entry of the deny-list
BlockedId == <<"1e471e2b", 1>>
\* a task id no POST ever returned
GhostId == <<"ghost", 1>>
\* the id field of an event that concerns no task id
NoId == <<"none", 1>>
BLOCKED_TASK_IDS == {BlockedId}
AllIds == NewIds \cup {OldId, BlockedId, GhostId}
\* the ids of which an earlier process accepted one and stored its record
EarlierIds == {OldId, BlockedId}

Terminal == {"success", "error"}

\* values of the X-API-Key header; None is a request without the header
Headers == {None, "s1", "s2"}
\* values of the API_KEY environment variable; None is unset
Secrets == {None, "s1"}

\* a task record: the dict kept in task_results and dumped to storage
Rec(s, r, m) == [status |-> s, result |-> r, message |-> m]

\* what a lookup that finds nothing returns (None in place of a record)
Absent == Rec(None, None, None)

\* dict / directory / table updates
Put(f, k, v) == [x \in DOMAIN f \cup {k} |-> IF x = k THEN v ELSE f[x]]
Drop(f, ks) == [x \in DOMAIN f \ ks |-> f[x]]
Empty == [x \in {} |-> None]

VARIABLES
    app,                 \* "file": api.py serves, "supabase": api_supabase.py serves
    API_KEY,             \* os.getenv("API_KEY")
    OPENAI_API_KEY,      \* TRUE iff os.getenv("OPENAI_API_KEY") is set
    supabase_available,  \* api_supabase.py: report_storage.is_connected() at import
    rag_available,       \* api_supabase.py: the import of db.rag succeeded
    disk_ok,             \* files under TASKS_DIR can be written
    hosted_up,           \* the hosted backend is reachable now
    task_results,        \* the in-memory cache: task id -> record
    tasks_dir,           \* TASKS_DIR: task id -> [data, mtime] of <id>.json
    hosted_tasks,        \* the hosted backend's task table: task id -> record
    pc,                  \* per task id of the pool: "free", "queued", "started", "done"
    kind,                \* per new task id: None, "run" or "train"
    cacheLog,            \* per new task id: statuses assigned to task_results[id]
    storeLog,            \* per new task id: statuses handed to a storage save
    accepted,            \* the task ids POST requests have returned, earlier processes included
    event,               \* the operation that has just completed
    seen,                \* a terminal answer of GET status an observer noted: [id, status]
    reports_dirs,        \* per candidate of the reports_dirs list: what the file system allows
    reports,             \* REPORTS_DIR: file name -> the lines of the file
    hosted_reports,      \* the hosted backend's reports table: rows, oldest first
    reports_dir,         \* the directory selected from the list (see select_reports_dir)
    mat,                 \* per task id: where the job's engine calls and report files stand
    fetched,             \* the answer of the last json fetch since the report was last written
    clock,               \* datetime.now(), in ticks
    stamps,              \* <<store, task id>> -> the created_at / updated_at persisted there
    last_saved           \* task id -> the data of the latest save_task_status that returned True

vars == <<app, API_KEY, OPENAI_API_KEY, supabase_available, rag_available, disk_ok,
          hosted_up,
          task_results, tasks_dir, hosted_tasks, pc, kind, cacheLog, storeLog,
          accepted, event, seen, reports_dirs, reports_dir, reports, hosted_reports,
          mat, fetched,
          clock, stamps, last_saved>>

\* what a request handler body or a background job can change
progState == <<task_results, tasks_dir, hosted_tasks, pc, kind, cacheLog, storeLog,
               accepted>>
\* the configuration the process started with
env == <<app, API_KEY, OPENAI_API_KEY, supabase_available, rag_available, disk_ok>>
\* the reports directory, the hosted reports table and the jobs' report writing
repState == <<reports, hosted_reports, mat, fetched>>
\* the clock and what the storage adapter's callers can tell of its history
storeState == <<clock, stamps, last_saved>>
\* what the task tracker's operations leave alone
auxState == <<reports_dirs, reports_dir, repState, storeState>>

(* ------------------------------ events -------------------------------- *)
\* how a request's X-API-Key header stands to the configured secret: "open" when
\* no secret is configured, else "match" or "mismatch"
HdrClass(hdr) ==
    IF API_KEY \in {None, ""} THEN "open"
    ELSE IF hdr = API_KEY THEN "match" ELSE "mismatch"

\* op: the route or job step; id: the task id it concerns; auth: HdrClass of the
\* request (None for a job step); code, status: the HTTP status code and the
\* status field of the answer (for a job step: the status it wrote); call: the
\* storage call made ("save", "load" or None); tried: that call attempted the
\* hosted backend; ret: what the storage call returned (a save: its truth value,
\* a load: whether it found a record); exc: an exception left the storage call;
\* eng: what the agent engine did in this job step (None: it was not called);
\* out: for a report or RAG route, what the request meets ("found", "missing":
\* the report exists or not; "raise": the backend call fails); called: the route
\* called its backend or engine; detail: the detail of an error answer
\* ("generic", "not found", "unavailable", or "exception text"); saved: what the
\* job's call of save_report returned (FALSE when the job did not call it); days:
\* the days parameter of a cleanup request (0 for every other operation)
Event(op, id, auth, code, status, call, tried) ==
    [op |-> op, id |-> id, auth |-> auth, code |-> code, status |-> status,
     call |-> call, tried |-> tried, ret |-> FALSE, exc |-> FALSE, eng |-> None,
     out |-> None, called |-> FALSE, detail |-> None, saved |-> FALSE, days |-> 0]

\* the event of an operation that made the storage call with result s
StorageEvent(op, id, auth, code, status, call, s) ==
    [Event(op, id, auth, code, status, call, s.tried)
        EXCEPT !.ret = s.ret, !.exc = s.exc]

Idle == Event(None, NoId, None, 0, None, None, FALSE)

(* ------------------------- authentication ----------------------------- *)
\* a check that passes any request carrying the header
get_api_key_present(hdr) ==
    IF API_KEY \in {None, ""} THEN TRUE ELSE hdr # None

\* get_api_key: TRUE when the request passes, FALSE when it raises 401
get_api_key(hdr) ==
    IF API_KEY \in {None, ""}          \* if not API_KEY: insecure mode
    THEN TRUE
    ELSE hdr = API_KEY

\* the 401 of a route that depends on get_api_key: the handler body does not run
Unauthorized(route, id, hdr) ==
    /\ ~get_api_key(hdr)
    /\ event' = Event(route, id, HdrClass(hdr), 401, None, None, FALSE)
    /\ UNCHANGED <<progState, hosted_up, env, auxState, seen>>

(* --------------------------- storage adapter -------------------------- *)
\* outcomes of one call of the hosted backend's SDK
HostedOutcomes == IF hosted_up THEN {"ok"} ELSE {"false", "raise"}

\* a test of the backend's reachability at the time of the call
HostedAttemptNow == app = "supabase" /\ hosted_up

\* "if supabase_available:" of save_task_status / load_task_status; api.py has
\* no hosted path
HostedAttempt == app = "supabase" /\ supabase_available

\* report_storage.save_task_status / load_task_status of db/supabase.py
hosted_save(t, data) == Put(hosted_tasks, t, data)
hosted_load(t) == IF t \in DOMAIN hosted_tasks THEN hosted_tasks[t] ELSE Absent

\* a load that answers a default record for a missing file
file_load_default(t) ==
    IF t \in DOMAIN tasks_dir THEN tasks_dir[t].data ELSE Rec("unknown", None, None)

\* the JSON file <TASKS_DIR>/<task_id>.json
file_save(t, data) == Put(tasks_dir, t, [data |-> data, mtime |-> Now])
file_load(t) == IF t \in DOMAIN tasks_dir THEN tasks_dir[t].data ELSE Absent

\* a save without the file fallback and without the try around the hosted call
save_task_status_hosted_only(t, data, hres) ==
    IF HostedAttempt
    THEN IF hres = "ok"
         THEN [hosted |-> hosted_save(t, data), dir |-> tasks_dir, ret |-> TRUE,
               tried |-> TRUE, exc |-> FALSE]
         ELSE [hosted |-> hosted_tasks, dir |-> tasks_dir, ret |-> FALSE,
               tried |-> TRUE, exc |-> hres = "raise"]
    ELSE [hosted |-> hosted_tasks, dir |-> IF disk_ok THEN file_save(t, data) ELSE tasks_dir,
          ret |-> disk_ok, tried |-> FALSE, exc |-> FALSE]

\* save_task_status (and, in api.py, save_task_to_file): hres is the outcome of the
\* hosted call; tried tells whether the hosted backend was called, exc whether an
\* exception left the function (both try blocks catch Exception: never)
save_task_status(t, data, hres) ==
    IF HostedAttempt /\ hres = "ok"
    THEN [hosted |-> hosted_save(t, data), dir |-> tasks_dir, ret |-> TRUE,
          tried |-> TRUE, exc |-> FALSE]
    ELSE IF disk_ok
    THEN [hosted |-> hosted_tasks, dir |-> file_save(t, data), ret |-> TRUE,
          tried |-> HostedAttempt, exc |-> FALSE]
    ELSE [hosted |-> hosted_tasks, dir |-> tasks_dir, ret |-> FALSE,
          tried |-> HostedAttempt, exc |-> FALSE]

\* load_task_status: data is the record, or Absent for None; ret tells whether a
\* record was found
load_task_status(t, hres) ==
    IF HostedAttempt /\ hres = "ok" /\ hosted_load(t) # Absent
    THEN [data |-> hosted_load(t), tried |-> TRUE, ret |-> TRUE, exc |-> FALSE]
    ELSE [data |-> file_load(t), tried |-> HostedAttempt,
          ret |-> file_load(t) # Absent, exc |-> FALSE]

\* one status write of a handler or job: the cache assignment and the save call
WriteBoth(t, data, hres) ==
    LET s == save_task_status(t, data, hres) IN
    /\ task_results' = Put(task_results, t, data)
    /\ hosted_tasks' = s.hosted
    /\ tasks_dir' = s.dir
    /\ cacheLog' = [cacheLog EXCEPT ![t] = Append(@, data.status)]
    /\ storeLog' = [storeLog EXCEPT ![t] = Append(@, data.status)]

\* a status write that only assigns task_results[t]
WriteCache(t, data) ==
    /\ task_results' = Put(task_results, t, data)
    /\ cacheLog' = [cacheLog EXCEPT ![t] = Append(@, data.status)]
    /\ UNCHANGED <<hosted_tasks, tasks_dir, storeLog>>

(* ------------------------- reports directory -------------------------- *)
\* entries of the reports_dirs list
Candidates == 4
\* reports_dir before the selection (Python's None) and after the fallback
NoDir == 0
Cwd == Candidates + 1

\* what the file system allows for a candidate: "ok" (it can be created, written
\* and cleaned up), "nodelete" (created and written, but os.remove fails),
\* "readonly" (created, but the test write fails), "nocreate" (os.makedirs fails)
DirStates == {"ok", "nodelete", "readonly", "nocreate"}

\* the loop over reports_dirs from entry i on, and the fallback after it: dir is
\* the value of reports_dir, raised tells that an exception left the selection
RECURSIVE select_reports_dir(_, _)
select_reports_dir(dirs, i) ==
    IF i > Len(dirs) THEN [dir |-> Cwd, raised |-> FALSE]
    \* os.makedirs(path, exist_ok=True) stands before the try
    ELSE IF dirs[i] = "nocreate" THEN [dir |-> NoDir, raised |-> TRUE]
    \* open, write and os.remove stand inside it: IOError is caught
    ELSE IF dirs[i] = "ok" THEN [dir |-> i, raised |-> FALSE]
    ELSE select_reports_dir(dirs, i + 1)

(* --------------------------- report documents ------------------------- *)
\* the crew_name of the requests: the runs of the model share it
CrewName == "crew"
\* the crew_name crew() falls back to when its inputs carry none
DefaultCrewName == "research_crew"

\* <crew_name>_report.md and <crew_name>_report.json under REPORTS_DIR
MdFile(name) == <<name, "md">>
JsonFile(name) == <<name, "json">>

\* one line of a document. k: "h1", "h2", "h3" (the line starts with "# ", "## ",
\* "### "), "text", or "blank" (nothing is left after strip); s: the line without
\* the marker, stripped; by: the run that wrote the line (0: an earlier process)
Line(k, s, by) == [k |-> k, s |-> s, by |-> by]

\* line[3:].strip().lower().replace(" ", "_") of the level-2 headings in use
Normalize(s) ==
    CASE s = "Title" -> "title"
      [] s = "Content" -> "content"
      [] s = "Summary" -> "summary"
      [] s = "Crew Name" -> "crew_name"
      [] s = "Crew" -> "crew"
      [] s = "Task" -> "task"
      [] OTHER -> s

\* values of the sections dict: a str, or a list of items; an item is a line of
\* text (heading None) or a subsection dict {"heading", "content"}
StrValue(s) == [type |-> "str", str |-> s, items |-> <<>>]
ListValue(items) == [type |-> "list", str |-> "", items |-> items]
TextItem(s) == [heading |-> None, content |-> <<s>>]
SubItem(h) == [heading |-> h, content |-> <<>>]

\* Python's truth value of a section value: "" and [] are false
Truthy(v) == IF v.type = "str" THEN v.str # "" ELSE v.items # <<>>

\* the body of the loop "for line in lines". st holds sections, current_section
\* (cur), current_subsection (sub: "none", "live": the last item of
\* sections[cur], "orphan": a dict no list holds any more) and whether an
\* exception was raised
ParseLine(st, line) ==
    LET secs == st.sections
        cur == st.cur
    IN
    IF st.raised THEN st
    ELSE IF line.k = "h1"
    THEN [st EXCEPT !.sections = Put(secs, "title", StrValue(line.s)),
                    !.sub = IF st.sub = "live" /\ cur = "title" THEN "orphan" ELSE st.sub]
    ELSE IF line.k = "h2"
    THEN LET key == Normalize(line.s) IN
         [st EXCEPT !.cur = key, !.sub = "none",
                    !.sections = IF key \in DOMAIN secs THEN secs
                                 ELSE Put(secs, key, ListValue(<<>>))]
    ELSE IF line.k = "h3"
    THEN LET made == IF cur \in DOMAIN secs THEN secs ELSE Put(secs, cur, ListValue(<<>>)) IN
         \* sections[current_section].append(...): a str has no append
         IF made[cur].type = "str" THEN [st EXCEPT !.raised = TRUE]
         ELSE [st EXCEPT !.sections =
                            Put(made, cur, ListValue(Append(made[cur].items, SubItem(line.s)))),
                         !.sub = "live"]
    ELSE IF line.k = "text"
    THEN IF st.sub = "live"
         THEN LET items == secs[cur].items
                  n == Len(items)
              IN [st EXCEPT !.sections =
                     Put(secs, cur, ListValue([items EXCEPT ![n].content = Append(@, line.s)]))]
         ELSE IF st.sub = "orphan" THEN st
         ELSE IF cur \in DOMAIN secs
         THEN IF secs[cur].type = "list"
              THEN [st EXCEPT !.sections =
                       Put(secs, cur, ListValue(Append(secs[cur].items, TextItem(line.s))))]
              ELSE [st EXCEPT !.sections = Put(secs, cur, ListValue(<<TextItem(line.s)>>))]
         ELSE [st EXCEPT !.sections =
                  Put(secs, "content",
                      ListValue(Append(secs["content"].items, TextItem(line.s))))]
    ELSE st

RECURSIVE ParseLines(_, _)
ParseLines(st, lines) ==
    IF lines = <<>> THEN st ELSE ParseLines(ParseLine(st, Head(lines)), Tail(lines))

\* parse_markdown_to_json: raised tells that an exception left it, json is the
\* dict it returns (the sections with a true value)
parse_markdown_to_json(markdown_text) ==
    LET start == [sections |-> [k \in {"title", "content"} |->
                                  IF k = "title" THEN StrValue("") ELSE ListValue(<<>>)],
                  cur |-> "overview", sub |-> "none", raised |-> FALSE]
        end == ParseLines(start, markdown_text)
        kept == {k \in DOMAIN end.sections : Truthy(end.sections[k])}
    IN [raised |-> end.raised,
        json |-> IF end.raised THEN Empty ELSE [k \in kept |-> end.sections[k]]]

\* the Markdown report crew() writes after its kickoff: the topic, the crew name
\* and the tasks' outputs ("No output generated" when a task has none)
CrewMd(by, eng) ==
    <<Line("h1", "Topic", by), Line("h2", "Crew Name", by), Line("h2", "Task", by)>>
    \o (IF eng = "result" THEN <<Line("text", "Output", by), Line("text", "out", by)>>
        ELSE <<Line("text", "No output generated", by)>>)

\* json.dumps(report_content) of run_crew: metadata and summary, then the tasks
JsonText(by, eng) ==
    <<Line("text", "metadata", by)>>
    \o (IF eng = "result" THEN <<Line("text", "tasks", by)>> ELSE <<>>)

\* the Markdown report run_crew writes: a section per task output, or the summary
RunMd(by, eng) ==
    <<Line("h1", "Research Report", by), Line("h2", "Crew", by)>>
    \o (IF eng = "result"
        THEN <<Line("h3", "Task", by), Line("text", "Output", by), Line("text", "out", by)>>
        ELSE <<Line("h2", "Summary", by)>>)

\* what write() through a handle opened with "w" leaves in the file: the text
\* from offset 0 on, and behind it what another handle has written meanwhile
WriteAt0(content, text) ==
    text \o SubSeq(content, Len(text) + 1, Len(content))

\* the answer of a json fetch: the status code and the body; n counts the
\* fetches (up to 2) since the report was last written
FetchAnswer(code, body, n) == [code |-> code, body |-> body, n |-> n]
NoFetch == FetchAnswer(0, Empty, 0)
Again == IF fetched.n = 0 THEN 1 ELSE 2

\* GET /reports/{crew_name}?format=json of api.py, past the authentication
\* a fetch that puts into its answer whether the report was fetched before
FileReportJsonNumbered ==
    IF MdFile(CrewName) \notin DOMAIN reports THEN FetchAnswer(404, Empty, Again)
    ELSE LET parsed == parse_markdown_to_json(reports[MdFile(CrewName)]) IN
         IF parsed.raised THEN FetchAnswer(500, Empty, Again)
         ELSE FetchAnswer(200, Put(parsed.json, "fetch",
                                   StrValue(IF fetched.n = 0 THEN "first" ELSE "again")),
                          Again)

FileReportJson ==
    IF MdFile(CrewName) \notin DOMAIN reports THEN FetchAnswer(404, Empty, Again)
    ELSE LET parsed == parse_markdown_to_json(reports[MdFile(CrewName)]) IN
         \* no try in the handler: the framework answers 500
         IF parsed.raised THEN FetchAnswer(500, Empty, Again)
         ELSE FetchAnswer(200, parsed.json, Again)

\* the rows of the hosted table for a crew name, oldest first
RowsOf(name) == SelectSeq(hosted_reports, LAMBDA row : row.crew_name = name)

\* GET /reports/{report_identifier}?format=json of api_supabase.py for a crew
\* name, past the authentication; out is what get_report_by_name does
HostedReportJson(out) ==
    IF out = "raise" THEN FetchAnswer(500, Empty, Again)
    ELSE IF out = "missing" \/ RowsOf(CrewName) = <<>> THEN FetchAnswer(404, Empty, Again)
    ELSE LET rows == RowsOf(CrewName) IN
         FetchAnswer(200, [k \in {"content"} |-> rows[Len(rows)].content], Again)

(* ------------------------------ Init ---------------------------------- *)
\* where the earlier process left its task's record: the JSON file, or, under
\* api_supabase.py, the hosted backend's table
EarlierStores == IF app = "supabase" THEN {"file", "hosted"} ELSE {"file"}

\* the task tracker after import
TrackerInit ==
    /\ app \in {"file", "supabase"}
    /\ API_KEY \in Secrets
    /\ OPENAI_API_KEY \in (IF app = "file" THEN BOOLEAN ELSE {TRUE})
    /\ hosted_up \in (IF app = "supabase" THEN BOOLEAN ELSE {FALSE})
    /\ supabase_available = (app = "supabase" /\ hosted_up)
    /\ rag_available \in (IF supabase_available THEN BOOLEAN ELSE {FALSE})
    /\ disk_ok \in BOOLEAN
    /\ task_results = Empty
    /\ \E t \in EarlierIds, store \in EarlierStores :
          /\ accepted = {t}
          /\ tasks_dir = IF store = "file"
                         THEN [x \in {t} |-> [data |-> Rec("success", "R", None),
                                              mtime |-> 0]]
                         ELSE Empty
          /\ hosted_tasks = IF store = "hosted"
                            THEN [x \in {t} |-> Rec("success", "R", None)]
                            ELSE Empty
    /\ pc = [t \in PoolIds |-> "free"]
    /\ kind = [t \in PoolIds |-> None]
    /\ cacheLog = [t \in PoolIds |-> <<>>]
    /\ storeLog = [t \in PoolIds |-> <<>>]
    /\ event = Idle
    /\ seen = [id |-> NoId, status |-> None]

\* a job that has not reached the engine. pc: where the job stands between its
\* first status write and its last; kicks: the kickoff calls made; eng: what the
\* latest kickoff did; saved: what save_report returned
MatIdle == [pc |-> "idle", kicks |-> 0, eng |-> None, saved |-> FALSE]

\* the reports directory and table as the earlier process left them
RepInit ==
    /\ reports = [f \in {MdFile(CrewName)} |->
                     IF app = "file" THEN CrewMd(0, "result") ELSE RunMd(0, "result")]
    /\ hosted_reports = IF app = "supabase"
                        THEN <<[crew_name |-> CrewName, content |-> JsonText(0, "result")]>>
                        ELSE <<>>
    /\ mat = [t \in PoolIds |-> MatIdle]
    /\ fetched = NoFetch

\* the storage adapter's history: the earlier process stored its record at tick 0
StoreInit ==
    /\ clock = 0
    /\ stamps = [k \in ({"file"} \X DOMAIN tasks_dir) \cup ({"hosted"} \X DOMAIN hosted_tasks)
                    |-> [created_at |-> 0, updated_at |-> 0]]
    /\ last_saved = [t \in DOMAIN tasks_dir \cup DOMAIN hosted_tasks
                        |-> Rec("success", "R", None)]

\* the process is serving: the import found the first candidate usable
Init ==
    /\ TrackerInit
    /\ reports_dirs = [i \in 1..Candidates |-> "ok"]
    /\ reports_dir = select_reports_dir(reports_dirs, 1).dir
    /\ RepInit
    /\ StoreInit

(* --------------------------- POST run / train ------------------------- *)
\* an id generator that can hand out an id again
FreshRepeat(t) == TRUE

\* uuid4: an id no request has been given before
Fresh(t) == pc[t] = "free" /\ \A u \in PoolIds : u[2] < t[2] => pc[u] # "free"

\* POST /run (api_supabase.py) and POST /run-crew/ (api.py)
run_crew(t, hdr, hres) ==
    /\ event = Idle
    /\ \/ Unauthorized("run", NoId, hdr)
       \/ /\ get_api_key(hdr)
          /\ Fresh(t)
          /\ WriteBoth(t, Rec("processing", None, "Task started"), hres)
          /\ pc' = [pc EXCEPT ![t] = "queued"]
          /\ kind' = [kind EXCEPT ![t] = "run"]
          /\ accepted' = accepted \cup {t}
          /\ event' = StorageEvent("run", t, HdrClass(hdr), 200, "processing", "save",
                 save_task_status(t, Rec("processing", None, "Task started"), hres))
          /\ UNCHANGED <<hosted_up, env, auxState, seen>>

\* POST /train-crew/ (api.py only)
train_crew(t, hdr) ==
    /\ event = Idle
    /\ app = "file"
    /\ \/ Unauthorized("train", NoId, hdr)
       \/ /\ get_api_key(hdr)
          /\ Fresh(t)
          /\ WriteCache(t, Rec("processing", None, None))
          /\ pc' = [pc EXCEPT ![t] = "queued"]
          /\ kind' = [kind EXCEPT ![t] = "train"]
          /\ accepted' = accepted \cup {t}
          /\ event' = Event("train", t, HdrClass(hdr), 200, "processing", None, FALSE)
          /\ UNCHANGED <<hosted_up, env, auxState, seen>>

(* --------------------------- background jobs -------------------------- *)
\* what the agent engine does with one call
EngineOutcomes == {"result", "empty", "raise"}

\* save_report of api_supabase.py: saved is the hosted call's truth value (an
\* exception counts as False); there is no file path
save_report(saved) == supabase_available /\ saved

\* a job without the branch for an empty result: the status stays as written
SupabaseTerminalNoElse(eng, saved) ==
    IF eng = "raise" THEN Rec("error", None, "exception text")
    ELSE IF eng = "empty" THEN Rec("running", None, "Task is running...")
    ELSE IF ~supabase_available
    THEN Rec("error", None, "Supabase is not available. Cannot save report.")
    ELSE IF saved THEN Rec("success", "R", None)
    ELSE Rec("error", None, "Failed to save report")

\* a job that takes the report for saved once the engine has produced a result
SupabaseTerminalUnsaved(eng, saved) ==
    IF eng = "raise" THEN Rec("error", None, "exception text")
    ELSE IF eng = "empty"
    THEN Rec("error", None, "Crew execution failed to produce a result")
    ELSE Rec("success", "R", None)

\* the status the job of api_supabase.py ends with: the engine's outcome, then
\* the availability test, then save_report's return value
SupabaseTerminal(eng, saved) ==
    IF eng = "raise" THEN Rec("error", None, "exception text")
    ELSE IF eng = "empty"
    THEN Rec("error", None, "Crew execution failed to produce a result")
    ELSE IF ~supabase_available
    THEN Rec("error", None, "Supabase is not available. Cannot save report.")
    ELSE IF save_report(saved) THEN Rec("success", "R", None)
    ELSE Rec("error", None, "Failed to save report")

\* the status the run job of api.py ends with
FileTerminal(eng) ==
    IF eng = "raise" THEN Rec("error", None, "exception text")
    ELSE Rec("success", IF eng = "empty" THEN "" ELSE "R", None)

\* the status the train job of api.py ends with
TrainTerminal(eng) ==
    IF ~OPENAI_API_KEY THEN Rec("error", None, "OPENAI_API_KEY not configured")
    ELSE IF eng = "raise" THEN Rec("error", None, "exception text")
    ELSE Rec("success", None, "Crew training completed")

\* a job whose first write is a status of its own
StartRecordStarted == Rec("started", None, None)

\* the first status the run job writes
StartRecord ==
    IF app = "supabase" THEN Rec("running", None, "Task is running...")
    ELSE Rec("processing", None, None)

\* run_crew_task up to the engine call
run_crew_task_start(t, hres) ==
    /\ event = Idle
    /\ pc[t] = "queued" /\ kind[t] = "run"
    /\ IF app = "file" /\ ~OPENAI_API_KEY
       THEN /\ WriteCache(t, Rec("error", None, "OPENAI_API_KEY not configured"))
            /\ pc' = [pc EXCEPT ![t] = "done"]
            /\ event' = Event("job_start", t, None, 0, "error", None, FALSE)
       ELSE /\ WriteBoth(t, StartRecord, hres)
            /\ pc' = [pc EXCEPT ![t] = "started"]
            /\ event' = StorageEvent("job_start", t, None, 0, StartRecord.status,
                                     "save", save_task_status(t, StartRecord, hres))
    /\ UNCHANGED <<kind, accepted, hosted_up, env, auxState, seen>>

\* run_crew_task from the engine call to its return
run_crew_task_finish(t, eng, saved, hres) ==
    /\ event = Idle
    /\ pc[t] = "started" /\ kind[t] = "run"
    /\ LET final == IF app = "supabase" THEN SupabaseTerminal(eng, saved)
                    ELSE FileTerminal(eng)
       IN /\ WriteBoth(t, final, hres)
          /\ event' = [StorageEvent("job_finish", t, None, 0, final.status, "save",
                                    save_task_status(t, final, hres))
                           EXCEPT !.eng = eng,
                                  !.saved = /\ app = "supabase" /\ eng = "result"
                                            /\ save_report(saved)]
    /\ pc' = [pc EXCEPT ![t] = "done"]
    /\ UNCHANGED <<kind, accepted, hosted_up, env, auxState, seen>>

\* train_crew_task (api.py)
train_crew_task(t, eng) ==
    /\ event = Idle
    /\ pc[t] = "queued" /\ kind[t] = "train"
    /\ WriteCache(t, TrainTerminal(eng))
    /\ pc' = [pc EXCEPT ![t] = "done"]
    /\ event' = [Event("job_train", t, None, 0, TrainTerminal(eng).status, None, FALSE)
                    EXCEPT !.eng = IF OPENAI_API_KEY THEN eng ELSE None]
    /\ UNCHANGED <<kind, accepted, hosted_up, env, auxState, seen>>

(* ------------------------------ GET status ---------------------------- *)
\* a handler without the deny-list test
IsBlockedNever(t) == FALSE

\* the deny-list test at the top of get_task_status; api_supabase.py has none
IsBlocked(t) == app = "file" /\ t \in BLOCKED_TASK_IDS

\* "Ensure the result field is a string": the record with its result filled in
FillResult(r) ==
    IF r.result # None THEN r
    ELSE IF r.status = "error"
    THEN [r EXCEPT !.result = IF r.message = None THEN "Unknown error" ELSE r.message]
    ELSE [r EXCEPT !.result = ""]

\* a lookup that reads storage and never the cache
LookupStorage(t, hres) == load_task_status(t, hres).data

\* the record get_task_status finds: the cache entry, else what storage loads
Lookup(t, hres) ==
    IF t \in DOMAIN task_results THEN task_results[t]
    ELSE load_task_status(t, hres).data

\* the answer of an authenticated GET status: [code, status]
Answer(t, hres) ==
    IF IsBlocked(t) THEN [code |-> 200, status |-> "blocked"]
    ELSE IF Lookup(t, hres) = Absent THEN [code |-> 404, status |-> None]
    ELSE [code |-> 200, status |-> Lookup(t, hres).status]

\* GET /status/{task_id} (api_supabase.py) and GET /task/{task_id} (api.py); with
\* note set, the observer notes the answer when it is the first terminal one
get_task_status(t, hdr, hres, note) ==
    /\ event = Idle
    /\ \/ Unauthorized("status", t, hdr) /\ ~note
       \/ /\ get_api_key(hdr)
          /\ LET cached == t \in DOMAIN task_results
                 loads == ~IsBlocked(t) /\ ~cached
             IN /\ event' = IF loads
                            THEN StorageEvent("status", t, HdrClass(hdr),
                                              Answer(t, hres).code, Answer(t, hres).status,
                                              "load", load_task_status(t, hres))
                            ELSE Event("status", t, HdrClass(hdr), Answer(t, hres).code,
                                       Answer(t, hres).status, None, FALSE)
                /\ task_results' = IF ~IsBlocked(t) /\ cached
                                   THEN Put(task_results, t, FillResult(task_results[t]))
                                   ELSE task_results
          /\ IF note
             THEN /\ seen.status = None
                  /\ Answer(t, hres).status \in Terminal
                  /\ seen' = [id |-> t, status |-> Answer(t, hres).status]
             ELSE seen' = seen
          /\ UNCHANGED <<tasks_dir, hosted_tasks, pc, kind, cacheLog, storeLog,
                         accepted, hosted_up, env, auxState>>

(* ------------------------------ maintenance --------------------------- *)
\* a cleanup that also removes the files modified at the cutoff
ExpiredInclusive(days) == {t \in DOMAIN tasks_dir : tasks_dir[t].mtime <= Now - days}

\* the files GET /cleanup-tasks removes: modification time before the cutoff
Expired(days) == {t \in DOMAIN tasks_dir : tasks_dir[t].mtime < Now - days}

\* GET /cleanup-tasks
cleanup_old_tasks(days, hdr) ==
    /\ event = Idle
    /\ \/ Unauthorized("cleanup", NoId, hdr)
       \/ /\ get_api_key(hdr)
          /\ tasks_dir' = Drop(tasks_dir, Expired(days))
          /\ event' = [Event("cleanup", NoId, HdrClass(hdr), 200, None, None, FALSE)
                           EXCEPT !.days = days]
          /\ UNCHANGED <<task_results, hosted_tasks, pc, kind, cacheLog, storeLog,
                         accepted, hosted_up, env, auxState, seen>>

\* GET /health: the route declares no dependency on get_api_key
health_check(hdr) ==
    /\ event = Idle
    /\ event' = Event("health", NoId, HdrClass(hdr), 200, None, None, FALSE)
    /\ UNCHANGED <<progState, hosted_up, env, auxState, seen>>

(* ------------------------- report and RAG routes ---------------------- *)
\* the routes of the serving module that read reports or query the RAG engine
ReadRoutes ==
    IF app = "supabase"
    THEN {"reports", "report", "report_tasks", "report_details",
          "search", "ask", "summary"}
    ELSE {"reports", "report"}

RagRoutes == {"search", "ask", "summary"}

\* the route's call goes to the hosted backend
UsesHosted(route) ==
    /\ app = "supabase"
    /\ route \in {"reports", "report_details"} => supabase_available

\* what a request can meet: an unreachable backend finds nothing
BackendOutcomes(route) ==
    IF UsesHosted(route) /\ ~hosted_up THEN {"missing", "raise"}
    ELSE {"found", "missing", "raise"}

Answered(code, detail, called) == [code |-> code, detail |-> detail, called |-> called]

\* the handler raises its 404 inside a try whose only clause is "except Exception"
NotFoundCaught(route) ==
    route = "report_tasks" \/ (route = "report_details" /\ supabase_available)

\* the answer of an authenticated request to a report or RAG route
RouteAnswer(route, out) ==
    IF route \in RagRoutes /\ ~supabase_available
    THEN Answered(503, "unavailable", FALSE)
    ELSE IF route \in RagRoutes /\ ~rag_available
    \* rag_engine was never bound: NameError inside the try
    THEN Answered(500, "exception text", FALSE)
    ELSE IF route = "report_details" /\ supabase_available
    \* get_report_by_name is no global of the module: NameError inside the try
    THEN Answered(500, "exception text", FALSE)
    ELSE IF out = "raise"
    THEN IF (route = "report" /\ app = "file") \/ route = "report_details"
         \* no try around open(): the framework's own 500
         THEN Answered(500, "generic", TRUE)
         ELSE Answered(500, "exception text", TRUE)
    ELSE IF out = "missing" /\ route \in {"report", "report_tasks", "report_details", "summary"}
    THEN IF NotFoundCaught(route)
         THEN Answered(500, "exception text", TRUE)
         ELSE Answered(404, "not found", TRUE)
    ELSE Answered(200, None, TRUE)

\* GET /reports, GET /reports/{name}, GET /reports/{id}/tasks,
\* GET /reports/{name}/details, POST /search, POST /ask, GET /summary/{name}
read_route(route, hdr, out) ==
    /\ event = Idle
    /\ route \in ReadRoutes
    /\ \/ Unauthorized(route, NoId, hdr)
       \/ /\ get_api_key(hdr)
          /\ out \in BackendOutcomes(route)
          /\ LET a == RouteAnswer(route, out) IN
             event' = [Event(route, NoId, HdrClass(hdr), a.code, None, None, FALSE)
                          EXCEPT !.out = out, !.called = a.called, !.detail = a.detail]
          /\ UNCHANGED <<progState, hosted_up, env, auxState, seen>>

(* ------------------------------ environment --------------------------- *)
\* the hosted backend becomes unreachable or reachable again
HostedFlip ==
    /\ event = Idle
    /\ app = "supabase"
    /\ hosted_up' = ~hosted_up
    /\ UNCHANGED <<progState, event, env, auxState, seen>>

\* the operation is over: the next one begins from here
Settle ==
    /\ event # Idle
    /\ event' = Idle
    /\ UNCHANGED <<progState, hosted_up, env, auxState, seen>>

(* ------------------------------ Next ---------------------------------- *)
PostRun == \E t \in NewIds, hdr \in Headers, hres \in HostedOutcomes :
              run_crew(t, hdr, hres)
PostTrain == \E t \in NewIds, hdr \in Headers : train_crew(t, hdr)
JobStart == \E t \in NewIds, hres \in HostedOutcomes : run_crew_task_start(t, hres)
JobFinish == \E t \in NewIds, eng \in EngineOutcomes, saved \in BOOLEAN,
                hres \in HostedOutcomes :
                /\ saved => hosted_up
                /\ run_crew_task_finish(t, eng, saved, hres)
JobTrain == \E t \in NewIds, eng \in EngineOutcomes : train_crew_task(t, eng)
GetStatus == \E t \in AllIds, hdr \in Headers, hres \in HostedOutcomes :
                get_task_status(t, hdr, hres, FALSE)
\* a GET status whose terminal answer the observer notes
GetStatusNoted == \E t \in AllIds, hdr \in Headers, hres \in HostedOutcomes :
                     get_task_status(t, hdr, hres, TRUE)
Cleanup == \E days \in (-1)..MaxDays, hdr \in Headers : cleanup_old_tasks(days, hdr)
Health == \E hdr \in Headers : health_check(hdr)
ReadRoute == \E route \in ReadRoutes, hdr \in Headers,
                out \in {"found", "missing", "raise"} :
                read_route(route, hdr, out)

Next ==
    \/ PostRun
    \/ PostTrain
    \/ JobStart
    \/ JobFinish
    \/ JobTrain
    \/ GetStatus
    \/ Cleanup
    \/ Health
    \/ ReadRoute
    \/ HostedFlip
    \/ Settle

Spec == Init /\ [][Next]_vars

\* Spec with an observer who notes one terminal answer of GET status
NextNoted == Next \/ GetStatusNoted
HistSpec == Init /\ [][NextNoted]_vars

(* POST requests arriving side by side: the operations that touch task state,
   with ids drawn from the whole pool *)
ConcPostRun == \E t \in PoolIds, hdr \in Headers, hres \in HostedOutcomes :
                  run_crew(t, hdr, hres)
ConcPostTrain == \E t \in PoolIds, hdr \in Headers : train_crew(t, hdr)
ConcJobStart == \E t \in PoolIds, hres \in HostedOutcomes : run_crew_task_start(t, hres)
ConcJobFinish == \E t \in PoolIds, eng \in EngineOutcomes, saved \in BOOLEAN,
                    hres \in HostedOutcomes :
                    /\ saved => hosted_up
                    /\ run_crew_task_finish(t, eng, saved, hres)
ConcJobTrain == \E t \in PoolIds, eng \in EngineOutcomes : train_crew_task(t, eng)
ConcGetStatus == \E t \in PoolIds, hdr \in Headers, hres \in HostedOutcomes :
                    get_task_status(t, hdr, hres, FALSE)

ConcNext ==
    \/ ConcPostRun
    \/ ConcPostTrain
    \/ ConcJobStart
    \/ ConcJobFinish
    \/ ConcJobTrain
    \/ ConcGetStatus
    \/ Cleanup
    \/ HostedFlip
    \/ Settle

ConcSpec == Init /\ [][ConcNext]_vars

\* the steps of the background job of task t
JobStep(t) ==
    \/ \E hres \in HostedOutcomes : run_crew_task_start(t, hres)
    \/ \E eng \in EngineOutcomes, saved \in BOOLEAN, hres \in HostedOutcomes :
          (saved => hosted_up) /\ run_crew_task_finish(t, eng, saved, hres)
    \/ \E eng \in EngineOutcomes : train_crew_task(t, eng)

\* the framework runs every scheduled background job, whatever requests arrive
\* meanwhile, and the engine call returns or raises; every operation ends
FairSpec == Spec /\ WF_vars(Settle) /\ \A t \in NewIds : SF_vars(JobStep(t))

(* The storage adapter called directly: any sequence of save_task_status and
   load_task_status calls for a task id, the hosted call of each succeeding or
   failing on its own, while the clock advances *)
MaxClock == 2

\* the created_at of a dict that has no such key
Unstamped == -1

\* the first lines of save_task_status: given is the created_at of status_data
Stamp(given, now) ==
    [created_at |-> IF given = Unstamped THEN now ELSE given, updated_at |-> now]

\* the dicts the callers pass: literals, written anew for every call
CallSiteData ==
    {Rec("processing", None, "Task started"), Rec("running", None, "Task is running..."),
     Rec("success", "R", None), Rec("error", None, "exception text")}

store_save(t, data, hres) ==
    /\ event = Idle
    /\ LET s == save_task_status(t, data, hres)
           store == IF HostedAttempt /\ hres = "ok" THEN "hosted" ELSE "file"
       IN /\ hosted_tasks' = s.hosted
          /\ tasks_dir' = s.dir
          /\ stamps' = IF s.ret THEN Put(stamps, <<store, t>>, Stamp(Unstamped, clock))
                        ELSE stamps
          /\ last_saved' = IF s.ret THEN Put(last_saved, t, data) ELSE last_saved
          /\ event' = StorageEvent("store_save", t, None, 0, data.status, "save", s)
    /\ UNCHANGED <<task_results, pc, kind, cacheLog, storeLog, accepted, hosted_up, env,
                   seen, reports_dirs, reports_dir, repState, clock>>

store_load(t, hres) ==
    /\ event = Idle
    /\ LET l == load_task_status(t, hres) IN
       event' = StorageEvent("store_load", t, None, 0, l.data.status, "load", l)
    /\ UNCHANGED <<progState, hosted_up, env, seen, auxState>>

\* datetime.now() advances
Tick ==
    /\ event = Idle
    /\ clock < MaxClock
    /\ clock' = clock + 1
    /\ UNCHANGED <<progState, hosted_up, env, seen, event, reports_dirs, reports_dir,
                   repState, stamps, last_saved>>

StoreSave == \E t \in NewIds, data \in CallSiteData, hres \in HostedOutcomes :
                store_save(t, data, hres)
StoreLoad == \E t \in NewIds \cup EarlierIds, hres \in HostedOutcomes : store_load(t, hres)

\* authentication and the engine's key play no part in the adapter
StoreSpecInit == Init /\ API_KEY = None /\ OPENAI_API_KEY /\ ~rag_available

StoreNext == StoreSave \/ StoreLoad \/ Tick \/ HostedFlip \/ Settle

StoreSpec == StoreSpecInit /\ [][StoreNext]_vars

(* GET /reports/{crew_name}?format=json *)
get_report_json(hdr, out) ==
    /\ event = Idle
    /\ \/ Unauthorized("report_json", NoId, hdr)
       \/ /\ get_api_key(hdr)
          /\ out \in (IF app = "file" THEN {"found"}
                      ELSE IF hosted_up THEN {"found"} ELSE {"missing", "raise"})
          /\ LET a == IF app = "file" THEN FileReportJson ELSE HostedReportJson(out) IN
             /\ fetched' = a
             /\ event' = [Event("report_json", NoId, HdrClass(hdr), a.code, None, None, FALSE)
                              EXCEPT !.detail = IF a.code = 404 THEN "not found"
                                                ELSE IF a.code # 500 THEN None
                                                ELSE IF app = "file" THEN "generic"
                                                ELSE "exception text",
                                     !.out = out, !.called = TRUE]
          /\ UNCHANGED <<progState, hosted_up, env, seen, reports_dirs, reports_dir,
                         reports, hosted_reports, mat, storeState>>

GetReportJson == \E hdr \in Headers, out \in {"found", "missing", "raise"} :
                    get_report_json(hdr, out)

(* parse_markdown_to_json applied, through the json fetch of api.py, to every
   Markdown text of up to MaxLines lines *)
MaxLines == 3

ParseLineSet ==
    {Line("h1", "T", 0), Line("h2", "Title", 0), Line("h2", "Content", 0),
     Line("h2", "Summary", 0), Line("h3", "Sub", 0), Line("text", "x", 0),
     Line("blank", "", 0)}

MarkdownTexts == UNION {[1..n -> ParseLineSet] : n \in 0..MaxLines}

ParseInit ==
    /\ TrackerInit
    /\ app = "file"
    /\ reports_dirs = [i \in 1..Candidates |-> "ok"]
    /\ reports_dir = select_reports_dir(reports_dirs, 1).dir
    /\ \E text \in MarkdownTexts : reports = [f \in {MdFile(CrewName)} |-> text]
    /\ hosted_reports = <<>>
    /\ mat = [t \in PoolIds |-> MatIdle]
    /\ fetched = NoFetch
    /\ StoreInit

ParseNext == GetReportJson \/ Settle

ParseSpec == ParseInit /\ [][ParseNext]_vars

(* The selection of the reports directory, under every condition of the
   candidates: at import of the API module and in every call of crew() *)
SelectDir ==
    /\ event = Idle
    /\ LET r == select_reports_dir(reports_dirs, 1) IN
       /\ reports_dir' = r.dir
       /\ event' = [Event("select_dir", NoId, None, 0, None, None, FALSE)
                        EXCEPT !.exc = r.raised]
    /\ UNCHANGED <<progState, hosted_up, env, seen, reports_dirs, repState, storeState>>

DirInit ==
    /\ TrackerInit
    /\ reports_dirs \in [1..Candidates -> DirStates]
    /\ reports_dir = NoDir
    /\ RepInit
    /\ StoreInit

DirNext == SelectDir \/ Settle

DirSpec == DirInit /\ [][DirNext]_vars


(* ----------------------- the run job, step by step -------------------- *)
\* the crew name the report file of crew() is named after: api.py puts
\* crew_name into the inputs, api_supabase.py does not
CrewFileName == IF app = "file" THEN CrewName ELSE DefaultCrewName

\* the file a job at a write position has (or is about to have) open
TargetFile(t) ==
    CASE mat[t].pc \in {"crew_open", "crew_flush"} -> MdFile(CrewFileName)
      [] mat[t].pc \in {"json_open", "json_flush"} -> JsonFile(CrewName)
      [] OTHER -> MdFile(CrewName)

\* the text the job writes through that handle
TargetText(t) ==
    CASE mat[t].pc \in {"crew_open", "crew_flush"} -> CrewMd(t[2], mat[t].eng)
      [] mat[t].pc \in {"json_open", "json_flush"} -> JsonText(t[2], mat[t].eng)
      [] OTHER -> RunMd(t[2], mat[t].eng)

\* where a job goes from a position once the step there is done
AfterStep(at) ==
    CASE at = "crew_open" -> "crew_flush"
      [] at = "crew_flush" -> "kick2"
      [] at = "json_open" -> "json_flush"
      [] at = "json_flush" -> "md_open"
      [] at = "md_open" -> "md_flush"
      [] OTHER -> "returned"

\* crew.kickoff: the call inside crew() and the call of the caller on the crew
\* that crew() returns
kickoff(t, eng) ==
    /\ event = Idle
    /\ pc[t] = "started" /\ kind[t] = "run"
    /\ mat[t].pc \in {"idle", "kick2"}
    /\ mat' = [mat EXCEPT ![t] =
                 [@ EXCEPT !.kicks = @ + 1, !.eng = eng,
                           !.pc = IF eng = "raise" THEN "raised"
                                  ELSE IF mat[t].pc = "idle" THEN "crew_open"
                                  ELSE IF app = "file" THEN "returned"
                                  ELSE "json_open"]]
    /\ UNCHANGED <<progState, hosted_up, env, reports_dirs, reports_dir, reports,
                   hosted_reports, fetched, storeState, seen, event>>

\* open(path, "w"): the file is created or cut to length 0
open_report(t) ==
    /\ event = Idle
    /\ pc[t] = "started"
    /\ mat[t].pc \in {"crew_open", "json_open", "md_open"}
    /\ reports' = Put(reports, TargetFile(t), <<>>)
    /\ mat' = [mat EXCEPT ![t].pc = AfterStep(@)]
    /\ fetched' = NoFetch
    /\ UNCHANGED <<progState, hosted_up, env, reports_dirs, reports_dir,
                   hosted_reports, storeState, seen, event>>

\* leaving the with block: the buffered text goes to the file at the handle's
\* own offset and the handle is closed
flush_report(t) ==
    /\ event = Idle
    /\ pc[t] = "started"
    /\ mat[t].pc \in {"crew_flush", "json_flush", "md_flush"}
    /\ reports' = Put(reports, TargetFile(t), WriteAt0(reports[TargetFile(t)], TargetText(t)))
    /\ mat' = [mat EXCEPT ![t].pc = AfterStep(@)]
    /\ fetched' = NoFetch
    /\ UNCHANGED <<progState, hosted_up, env, reports_dirs, reports_dir,
                   hosted_reports, storeState, seen, event>>

\* save_report of api_supabase.py, called when the result is non-empty and the
\* backend was connected at start; saved is what report_storage.save_report does
store_report(t, saved) ==
    /\ event = Idle
    /\ pc[t] = "started"
    /\ app = "supabase" /\ supabase_available
    /\ mat[t].pc = "returned" /\ mat[t].eng = "result"
    /\ saved => hosted_up
    /\ hosted_reports' = IF saved
                         THEN Append(hosted_reports,
                                     [crew_name |-> CrewName,
                                      content |-> JsonText(t[2], mat[t].eng)])
                         ELSE hosted_reports
    /\ mat' = [mat EXCEPT ![t].pc = "stored", ![t].saved = saved]
    /\ fetched' = IF saved THEN NoFetch ELSE fetched
    /\ UNCHANGED <<progState, hosted_up, env, reports_dirs, reports_dir, reports,
                   storeState, seen, event>>

\* the job has nothing left to do but write its last status
AtEnd(t) ==
    \/ mat[t].pc \in {"raised", "stored"}
    \/ /\ mat[t].pc = "returned"
       /\ ~(app = "supabase" /\ supabase_available /\ mat[t].eng = "result")

Kickoff == \E t \in PoolIds, eng \in EngineOutcomes : kickoff(t, eng)
OpenReport == \E t \in PoolIds : open_report(t)
FlushReport == \E t \in PoolIds : flush_report(t)
StoreReport == \E t \in PoolIds, saved \in BOOLEAN : store_report(t, saved)
RepJobFinish == \E t \in PoolIds, hres \in HostedOutcomes :
                   /\ AtEnd(t)
                   /\ run_crew_task_finish(t, IF mat[t].pc = "raised" THEN "raise"
                                              ELSE mat[t].eng,
                                           mat[t].saved, hres)

\* the serving process with its engine key set, its task directory writable, the
\* API key unset and the earlier record in the task directory; the hosted
\* backend stays as it was at start
RepSpecInit ==
    /\ Init
    /\ API_KEY = None /\ OPENAI_API_KEY /\ disk_ok /\ ~rag_available
    /\ accepted = {OldId} /\ hosted_tasks = Empty

RepNext ==
    \/ ConcPostRun
    \/ ConcJobStart
    \/ Kickoff
    \/ OpenReport
    \/ FlushReport
    \/ StoreReport
    \/ RepJobFinish
    \/ GetReportJson
    \/ Settle

RepSpec == RepSpecInit /\ [][RepNext]_vars

(* ------------------------------ properties ---------------------------- *)
\* a sequence of status writes in the documented order
InOrder(log) ==
    /\ Len(log) <= 3
    /\ Len(log) >= 1 => log[1] = "processing"
    /\ Len(log) >= 2 => log[2] = "running"
    /\ Len(log) >= 3 => log[3] \in Terminal

\* C1: the status writes of every task accepted by POST /run or POST /run-crew/
\* follow processing, then running, then one of success and error, in the cache
\* and in storage alike; no other value and no other order is written.
C1_StatusOrder ==
    \A t \in NewIds : kind[t] = "run" => InOrder(cacheLog[t]) /\ InOrder(storeLog[t])

\* C2 as stated: once a GET status has answered success or error for a task id,
\* every later GET status for that id answers the same status.
C2_TerminalStable ==
    (seen.status # None /\ event.op = "status" /\ event.id = seen.id /\ event.code # 401)
        => event.status = seen.status

\* C2: once a GET status has answered success or error for a task id held in the
\* in-memory cache (an id a POST of the running process accepted), every later
\* GET status for that id answers the same status, whatever cleanup removes.
C2_CachedTerminalStable ==
    (/\ seen.status # None /\ seen.id \in DOMAIN task_results
     /\ event.op = "status" /\ event.id = seen.id /\ event.code # 401)
        => event.code = 200 /\ event.status = seen.status

\* a GET answers the noted terminal status of a task whose file cleanup has removed
C2_Witness ==
    /\ seen.id \in NewIds /\ seen.status \in Terminal
    /\ event.op = "status" /\ event.id = seen.id /\ event.status = seen.status
    /\ app = "file" /\ disk_ok /\ storeLog[seen.id] # <<>>
    /\ seen.id \notin DOMAIN tasks_dir

\* C3: every accepted task eventually holds success or error: the background job
\* runs to its end and its last write is a terminal status.
C3_EventuallyTerminal ==
    \A t \in NewIds :
        (pc[t] = "queued") ~>
            (pc[t] = "done" /\ t \in DOMAIN task_results
             /\ task_results[t].status \in Terminal)

\* a job has ended and the cache holds its terminal status
C3_Witness ==
    \E t \in NewIds : /\ pc[t] = "done" /\ kind[t] = "run"
                      /\ cacheLog[t] = <<"processing", "running", "error">>
                      /\ task_results[t].status = "error"

\* C4 as stated: from the POST's response until the background job has completed,
\* every GET status for the task answers processing.
C4_ProcessingUntilDone ==
    (/\ event.op = "status" /\ event.code # 401 /\ event.id \in NewIds
     /\ pc[event.id] \in {"queued", "started"})
        => event.code = 200 /\ event.status = "processing"

\* C4: from the POST's response until the background job's first write every
\* GET status answers processing; from then until the job's last write it answers
\* running under api_supabase.py and processing under api.py.
C4_ProcessingThenRunning ==
    (event.op = "status" /\ event.code # 401 /\ event.id \in NewIds)
        => /\ pc[event.id] = "queued"
                => event.code = 200 /\ event.status = "processing"
           /\ pc[event.id] = "started"
                => /\ event.code = 200
                   /\ event.status = IF app = "supabase" THEN "running" ELSE "processing"

\* a GET answers running while the job of api_supabase.py is at work
C4_Witness ==
    /\ event.op = "status" /\ event.id \in NewIds /\ pc[event.id] = "started"
    /\ app = "supabase" /\ event.status = "running"

\* C5 as stated: a GET status for a task id no POST ever returned answers 404, in
\* every reachable state of cache and storage.
C5_UnknownIs404 ==
    (event.op = "status" /\ event.code # 401 /\ event.id \notin accepted)
        => event.code = 404

\* C5: a GET status for a task id that no POST ever returned and that is not on
\* the deny-list of api.py answers 404, in every reachable state of cache and
\* storage.
C5_UnknownUnlistedIs404 ==
    (/\ event.op = "status" /\ event.code # 401 /\ event.id \notin accepted
     /\ ~(app = "file" /\ event.id \in BLOCKED_TASK_IDS))
        => event.code = 404

\* a GET for an id never returned answers 404 while the cache holds a task
C5_Witness ==
    /\ event.op = "status" /\ event.id = GhostId /\ event.code = 404
    /\ task_results # Empty /\ tasks_dir # Empty

\* C6 as stated: on each route that answers a task's status, a GET for a
\* deny-listed id answers blocked, before any cache or storage lookup.
C6_DenyListedBlocked ==
    (event.op = "status" /\ event.code # 401 /\ event.id \in BLOCKED_TASK_IDS)
        => event.status = "blocked" /\ event.call = None

\* C6: on GET /task/{task_id} of api.py, a GET for a deny-listed id answers
\* blocked, before any cache or storage lookup and whatever they hold;
\* GET /status/{task_id} of api_supabase.py has no deny-list.
C6_DenyListedBlockedFile ==
    (/\ app = "file"
     /\ event.op = "status" /\ event.code # 401 /\ event.id \in BLOCKED_TASK_IDS)
        => event.code = 200 /\ event.status = "blocked" /\ event.call = None

\* api.py answers blocked for the deny-listed id although storage holds its record
C6_Witness ==
    /\ app = "file" /\ event.op = "status" /\ event.id = BlockedId
    /\ event.status = "blocked" /\ BlockedId \in DOMAIN tasks_dir

\* C7: on a route that depends on the authentication check, a request is refused
\* with 401 exactly when a secret is configured and the X-API-Key header differs
\* from it (or is missing); a refused request changes neither cache nor storage.
C7_AuthCheck ==
    [][(event'.auth # None /\ event'.op # "health")
          => /\ (event'.code = 401) <=> (event'.auth = "mismatch")
             /\ event'.code = 401 => UNCHANGED <<task_results, tasks_dir, hosted_tasks>>]_vars

\* a POST run with a wrong header is refused with 401 and the cache stays empty
C7_Witness ==
    /\ event.op = "run" /\ event.auth = "mismatch" /\ event.code = 401
    /\ task_results = Empty

\* C8: with a secret configured, every endpoint, GET /health included, answers
\* 401 to a request whose X-API-Key header does not match.
C8_EveryEndpoint401 ==
    event.auth = "mismatch" => event.code = 401

\* C9: every write of a task status updates both the cache and storage: the
\* statuses assigned to the cache entry are the statuses handed to a save.
C9_WritesBoth ==
    \A t \in NewIds : cacheLog[t] = storeLog[t]

\* C10 as stated: a save or load of a task status attempts the hosted backend
\* first whenever it is configured and reachable at the time of the call.
C10_AttemptWhenReachable ==
    (event.call # None /\ app = "supabase" /\ hosted_up) => event.tried

\* C10: a save or load of a task status attempts the hosted backend first exactly
\* when the backend was connected at server start, whatever its reachability at
\* the time of the call.
C10_AttemptWhenConnectedAtStart ==
    event.call # None => (event.tried <=> (app = "supabase" /\ supabase_available))

\* a save goes to the file although the backend, down at start, is reachable
C10_Witness ==
    /\ app = "supabase" /\ ~supabase_available /\ hosted_up
    /\ event.call = "save" /\ ~event.tried

\* the record a storage path holds for task t
HostedHolds(t, st) == t \in DOMAIN hosted_tasks /\ hosted_tasks[t].status = st
FileHolds(t, st) == t \in DOMAIN tasks_dir /\ tasks_dir[t].data.status = st

C12_ReportFallback ==
    (/\ event.op = "job_finish" /\ app = "supabase"
     /\ event.eng = "result" /\ ~hosted_up)
        => save_report(FALSE) /\ event.status = "success"

\* C13 as stated: GET status answers from the cache entry whenever one exists,
\* without consulting storage; only on a cache miss does it read storage; it
\* answers 404 exactly when neither the cache nor storage has an entry for the id.
C13_CacheFirst ==
    (event.op = "status" /\ event.code # 401) =>
        LET t == event.id IN
        /\ t \in DOMAIN task_results
              => /\ event.call = None /\ event.code = 200
                 /\ event.status = task_results[t].status
        /\ t \notin DOMAIN task_results => event.call = "load"
        /\ (event.code = 404)
              <=> /\ t \notin DOMAIN task_results
                  /\ t \notin DOMAIN tasks_dir /\ t \notin DOMAIN hosted_tasks

\* C13: for an id outside api.py's deny-list, GET status answers from the cache
\* entry whenever one exists, without consulting storage; only on a cache miss
\* does it read storage; it answers 404 exactly when the cache has no entry, no
\* JSON file exists and the hosted backend returns no record (it holds none, is
\* unreachable, or was not connected at start).
C13_CacheFirstUnlisted ==
    (/\ event.op = "status" /\ event.code # 401
     /\ ~(app = "file" /\ event.id \in BLOCKED_TASK_IDS)) =>
        LET t == event.id
            hostedReturns == /\ app = "supabase" /\ supabase_available /\ hosted_up
                             /\ t \in DOMAIN hosted_tasks
        IN
        /\ t \in DOMAIN task_results
              => /\ event.call = None /\ event.code = 200
                 /\ event.status = task_results[t].status
        /\ t \notin DOMAIN task_results => event.call = "load"
        /\ (event.code = 404)
              <=> /\ t \notin DOMAIN task_results
                  /\ t \notin DOMAIN tasks_dir /\ ~hostedReturns

\* GET answers the cached error of a task whose JSON file still says processing
C13_Witness ==
    /\ event.op = "status" /\ event.id \in DOMAIN task_results
    /\ event.call = None /\ event.status = "error"
    /\ FileHolds(event.id, "processing")

\* C14: once a task's status is success or error, the result field of its cache
\* entry and of its stored records is never changed by any later operation, GET
\* status included.
C14_ResultFrozen ==
    [][/\ \A t \in DOMAIN task_results :
             task_results[t].status \in Terminal
                => /\ t \in DOMAIN task_results'
                   /\ task_results'[t].result = task_results[t].result
       /\ \A t \in DOMAIN tasks_dir \cap DOMAIN tasks_dir' :
             tasks_dir[t].data.status \in Terminal
                => tasks_dir'[t].data.result = tasks_dir[t].data.result
       /\ \A t \in DOMAIN hosted_tasks :
             hosted_tasks[t].status \in Terminal
                => /\ t \in DOMAIN hosted_tasks'
                   /\ hosted_tasks'[t].result = hosted_tasks[t].result]_vars

\* C15: the background job of a task writes the task's status exactly twice on
\* every path, at its start and with a terminal status (after the handler's
\* write: three writes in all), and nothing writes the task's cache entry after
\* the terminal write.
C15_TwoJobWrites ==
    [][\A t \in NewIds :
          /\ pc'[t] = "done"
                => /\ Len(cacheLog'[t]) = 3
                   /\ cacheLog'[t][3] \in Terminal
                   /\ cacheLog'[t][2] \notin Terminal
          /\ pc[t] = "done"
                => /\ cacheLog'[t] = cacheLog[t] /\ storeLog'[t] = storeLog[t]
                   /\ task_results'[t] = task_results[t]]_vars

\* C16: each accepted POST gets a task id no POST returned before and schedules
\* the one background job of that id; a step of a job writes the cache entry,
\* the stored record and the logs of its own task id only.
C16_OneJobPerId ==
    [][LET t == event'.id
           others == PoolIds \ {t}
       IN
       /\ (event'.op \in {"run", "train"} /\ event'.code = 200)
             => /\ t \notin accepted /\ t \notin DOMAIN task_results
                /\ pc[t] = "free" /\ pc'[t] = "queued"
                /\ \A u \in others : pc'[u] = pc[u] /\ kind'[u] = kind[u]
       /\ event'.op \in {"job_start", "job_finish", "job_train"}
             => /\ pc[t] \in {"queued", "started"} /\ pc'[t] # pc[t]
                /\ \A u \in others :
                      /\ pc'[u] = pc[u]
                      /\ cacheLog'[u] = cacheLog[u] /\ storeLog'[u] = storeLog[u]
                      /\ u \in DOMAIN task_results
                            => task_results'[u] = task_results[u]
                      /\ u \in DOMAIN tasks_dir => tasks_dir'[u] = tasks_dir[u]
                      /\ u \in DOMAIN hosted_tasks
                            => hosted_tasks'[u] = hosted_tasks[u]]_vars

\* two jobs with different ids are at work at the same time
C16_Witness ==
    \E t, u \in PoolIds :
        /\ t # u /\ pc[t] = "started" /\ pc[u] = "started"
        /\ event.op = "job_start" /\ event.id = u

\* C17: when the engine call raises inside a background job, the task ends with
\* status error and the exception text as message, written to the cache and
\* handed to storage, and no exception leaves the job.
C17_ExceptionStored ==
    (event.op \in {"job_finish", "job_train"} /\ event.eng = "raise") =>
        LET t == event.id IN
        /\ task_results[t].status = "error"
        /\ task_results[t].message = "exception text"
        /\ storeLog[t] # <<>> /\ storeLog[t][Len(storeLog[t])] = "error"
        /\ ~event.exc

\* C18: a request for a report that does not exist is answered 404 by each of
\* GET /reports/{name}, GET /reports/{report_id}/tasks and
\* GET /reports/{report_name}/details.
C18_MissingReport404 ==
    (/\ event.op \in {"report", "report_tasks", "report_details"}
     /\ event.code # 401 /\ event.out = "missing")
        => event.code = 404

\* C19: an exception caught at a route handler's boundary is answered 500 with
\* a generic message: the body never carries the text of the exception.
C19_Generic500 ==
    event.code = 500 => event.detail = "generic"

\* C20: POST /search, POST /ask and GET /summary/{name} answer 503 whenever the
\* hosted search/RAG backend is unavailable (it is unreachable, or the RAG engine
\* could not be loaded), and then the RAG engine is not called.
C20_Rag503 ==
    (/\ event.op \in RagRoutes /\ event.code # 401
     /\ (~hosted_up \/ ~rag_available))
        => event.code = 503 /\ ~event.called

C30_CleanupFrame ==
    [][/\ (event'.op = "cleanup" /\ event'.code = 200) =>
             /\ DOMAIN tasks_dir' =
                   {t \in DOMAIN tasks_dir : ~(tasks_dir[t].mtime < Now - event'.days)}
             /\ \A t \in DOMAIN tasks_dir' : tasks_dir'[t] = tasks_dir[t]
             /\ UNCHANGED <<task_results, hosted_tasks, reports, hosted_reports>>
       /\ (/\ event'.op = "status" /\ event'.code # 401
           /\ event'.id \in DOMAIN task_results
           /\ ~(app = "file" /\ event'.id \in BLOCKED_TASK_IDS)) =>
             /\ event'.code = 200 /\ event'.call = None
             /\ event'.status = task_results[event'.id].status
             /\ UNCHANGED tasks_dir]_vars

\* a GET answers the cached status of a task whose JSON file a cleanup removed
C30_Witness ==
    /\ event.op = "status" /\ event.id \in NewIds /\ event.code = 200
    /\ disk_ok /\ ~HostedAttempt /\ storeLog[event.id] # <<>>
    /\ event.id \notin DOMAIN tasks_dir
    /\ event.status = task_results[event.id].status

\* C25: the selection of the reports directory never raises: it picks the first
\* candidate, in list order, that can be created and written to, and falls back
\* to the current working directory when there is none.
C25_DirSelection ==
    LET W == {i \in 1..Candidates : reports_dirs[i] \in {"ok", "nodelete"}} IN
    event.op = "select_dir" =>
        /\ ~event.exc
        /\ reports_dir = IF W = {} THEN Cwd ELSE CHOOSE i \in W : \A j \in W : i <= j

\* C29: parse_markdown_to_json returns a structured record for every Markdown
\* text and never raises, also when a level-2 heading normalizes to one of the
\* reserved keys title or content and a level-3 heading or content lines follow;
\* every key of the returned record has a non-empty value.
C29_ParseTotal ==
    (event.op = "report_json" /\ event.code \notin {401, 404}) =>
        LET parsed == parse_markdown_to_json(reports[MdFile(CrewName)]) IN
        /\ ~parsed.raised
        /\ event.code = 200 /\ fetched.body = parsed.json
        /\ \A k \in DOMAIN parsed.json : Truthy(parsed.json[k])

\* C24: after any sequence of save_task_status calls for a task id, whatever the
\* hosted call of each did, load_task_status returns the data of the most recent
\* call that returned True: the caller cannot tell which backend served it.
\* (Checked for the ids saved by this process and for the loads whose own hosted
\* call, if made, was answered.)
C24_LoadLatestSaved ==
    (/\ event.op = "store_load" /\ event.id \in NewIds \cap DOMAIN last_saved
     /\ event.tried => hosted_up) =>
        event.ret /\ event.status = last_saved[event.id].status

\* C28: the created_at persisted for a task id is set by the first
\* save_task_status call for the id and no later status write changes it; only
\* updated_at advances.
C28_CreatedAtKept ==
    [][\A k \in DOMAIN stamps :
          /\ k \in DOMAIN stamps'
          /\ stamps'[k].created_at = stamps[k].created_at
          /\ stamps'[k].updated_at >= stamps[k].updated_at]_vars

\* C26: each accepted run request invokes the engine's kickoff exactly once: no
\* job calls it a second time, and a job that ends in success has called it once
C26_KickoffOnce ==
    \A t \in PoolIds :
        /\ mat[t].kicks <= 1
        /\ (pc[t] = "done" /\ kind[t] = "run" /\ task_results[t].status = "success")
              => mat[t].kicks = 1

\* C27: once every job has ended, the JSON report file and the Markdown report
\* file of a crew name hold the report of the same run
C27_SameRun ==
    (/\ \A t \in PoolIds : pc[t] \in {"free", "done"}
     /\ JsonFile(CrewName) \in DOMAIN reports
     /\ MdFile(CrewName) \in DOMAIN reports)
    => \E by \in 0..MaxJobs :
          /\ \A i \in 1..Len(reports[JsonFile(CrewName)]) :
                reports[JsonFile(CrewName)][i].by = by
          /\ \A i \in 1..Len(reports[MdFile(CrewName)]) :
                reports[MdFile(CrewName)][i].by = by

\* C22: with the filesystem backend, once every job has ended the report file of
\* a crew name is entirely the report one run wrote, never a merge of two
C22_LastWriteWins ==
    (/\ app = "file"
     /\ \A t \in PoolIds : pc[t] \in {"free", "done"}
     /\ MdFile(CrewName) \in DOMAIN reports)
    => \E by \in 0..MaxJobs, eng \in {"result", "empty"} :
          reports[MdFile(CrewName)] = CrewMd(by, eng)

====
